---- MODULE Spec2Model ----
(***************************************************************************)
(* yasno-exporter: the poll loop of Worker (src/yasno_exporter.py), the    *)
(* metric registry it fills lazily, and the evaluation of one group's      *)
(* calendar feed into the three gauges blackout / possible_blackout /      *)
(* no_blackout.                                                            *)
(*                                                                         *)
(* Strings that the code indexes (metric keys and names) are sequences of  *)
(* one-character strings.                                                  *)
(***************************************************************************)
EXTENDS Integers, Sequences, FiniteSets, TLC

(***************************************************************************)
(* Bounds of the model.                                                    *)
(***************************************************************************)
\* Components of one parsed feed (gcal.walk(), after the calendar root).
MaxEvents == 2
\* Instants run over 0..MaxTime; the clock shows 1..MaxTime.
MaxTime == 2

(***************************************************************************)
(* Program constants.                                                      *)
(***************************************************************************)
\* for id in range(1, 7)
NumGroups == 6

Groups == 1..NumGroups

\* The three attributes Worker.__init__ sets.
Slots == {"BLACKOUT", "POSSIBLE_BLACKOUT", "NO_BLACKOUT"}

\* [self.BLACKOUT, self.POSSIBLE_BLACKOUT, self.NO_BLACKOUT]: the order of the
\* ensure loop and of the three set calls of every branch.
KeyOrder == <<"BLACKOUT", "POSSIBLE_BLACKOUT", "NO_BLACKOUT">>

WorkerKeys ==
    [ BLACKOUT          |-> <<"b","l","a","c","k","o","u","t">>,
      POSSIBLE_BLACKOUT |-> <<"p","o","s","s","i","b","l","e","_",
                              "b","l","a","c","k","o","u","t">>,
      NO_BLACKOUT       |-> <<"n","o","_","b","l","a","c","k","o","u","t">> ]

\* The summaries of lines 110 and 113 (transliterated).
NO_POWER == "Svitla nemaie"
POSSIBLE_OUTAGE == "Mozhlyve vidkliuchennia"

(***************************************************************************)
(* Characters: str.isupper, str.lower, and the classes of the pattern.     *)
(***************************************************************************)
UpperSeq == <<"A","B","C","D","E","F","G","H","I","J","K","L","M",
              "N","O","P","Q","R","S","T","U","V","W","X","Y","Z">>
LowerSeq == <<"a","b","c","d","e","f","g","h","i","j","k","l","m",
              "n","o","p","q","r","s","t","u","v","w","x","y","z">>

Range(s) == {s[j] : j \in 1..Len(s)}

UpperChars == Range(UpperSeq)
LowerChars == Range(LowerSeq)

\* str.isupper of one character
IsUpper(c) == c \in UpperChars

\* Mutant: str.swapcase in place of str.lower.
Lower_SwapCase(c) ==
    IF c \in UpperChars
    THEN LowerSeq[CHOOSE j \in 1..Len(UpperSeq) : UpperSeq[j] = c]
    ELSE IF c \in LowerChars
    THEN UpperSeq[CHOOSE j \in 1..Len(LowerSeq) : LowerSeq[j] = c]
    ELSE c

\* str.lower of one character
Lower(c) ==
    IF IsUpper(c)
    THEN LowerSeq[CHOOSE j \in 1..Len(UpperSeq) : UpperSeq[j] = c]
    ELSE c

\* [a-zA-Z_:]
FirstChars == UpperChars \cup LowerChars \cup {"_", ":"}

Digits == {"0","1","2","3","4","5","6","7","8","9"}

\* [a-zA-Z0-9_:]
NameChars == FirstChars \cup Digits

(***************************************************************************)
(* YasnoMetric.convert_yasno_key_to_prometheus_name                        *)
(***************************************************************************)
\* key.replace(".", "_")
ReplaceDots(key) == [j \in 1..Len(key) |-> IF key[j] = "." THEN "_" ELSE key[j]]

\* Mutant: the test of the last character of new is missing.
RECURSIVE CamelLoop_AlwaysUnderscore(_, _)
CamelLoop_AlwaysUnderscore(new, rest) ==
    IF rest = <<>> THEN new
    ELSE LET character == Head(rest)
         IN  CamelLoop_AlwaysUnderscore(
                 IF IsUpper(character)
                 THEN new \o <<"_", Lower(character)>>
                 ELSE new \o <<Lower(character)>>,
                 Tail(rest))

\* The for loop of lines 32-35, new being the text built so far.
RECURSIVE CamelLoop(_, _)
CamelLoop(new, rest) ==
    IF rest = <<>> THEN new
    ELSE LET character == Head(rest)
         IN  CamelLoop(
                 IF IsUpper(character) /\ new[Len(new)] # "_"
                 THEN new \o <<"_", Lower(character)>>
                 ELSE new \o <<Lower(character)>>,
                 Tail(rest))

\* Lines 30-35; the key is not empty (key[0]).
ConvertKey(yasno_key) ==
    LET key == ReplaceDots(yasno_key)
    IN  CamelLoop(<<Lower(key[1])>>, Tail(key))

\* Mutant: the pattern must match the whole of new (re.fullmatch).
ReMatch_Whole(new) ==
    /\ Len(new) >= 1
    /\ new[1] \in FirstChars
    /\ \A j \in 1..Len(new) : new[j] \in NameChars

\* re.match("[a-zA-Z_:][a-zA-Z0-9_:]*", new): a match at the start of new;
\* the starred class matches the empty text, so the first character decides.
ReMatch(new) == Len(new) >= 1 /\ new[1] \in FirstChars

YasnoPrefix == <<"y","a","s","n","o","_">>

\* Mutant: the check of line 38 is missing.
MetricName_NoCheck(yasno_key) ==
    IF yasno_key = <<>> THEN [raised |-> "IndexError", name |-> <<>>]
    ELSE [raised |-> "none", name |-> YasnoPrefix \o ConvertKey(yasno_key)]

\* The outcome of YasnoMetric(yasno_key) up to the Gauge construction:
\* IndexError for the empty key, YasnoMetricException when the pattern does
\* not match, else the metric name.
MetricName(yasno_key) ==
    IF yasno_key = <<>> THEN [raised |-> "IndexError", name |-> <<>>]
    ELSE IF ~ReMatch(ConvertKey(yasno_key))
         THEN [raised |-> "YasnoMetricException", name |-> <<>>]
         ELSE [raised |-> "none", name |-> YasnoPrefix \o ConvertKey(yasno_key)]

(***************************************************************************)
(* Calendar components and feeds.                                          *)
(***************************************************************************)
Times == 0..MaxTime

\* What datetime.now() can show while a feed is scanned.
ClockVals == 1..MaxTime

\* One element of gcal.walk(): its name, and the summary, dtstart and dtend
\* the code reads from a VEVENT.  The other component type stands for every
\* name that is not VEVENT.
Components ==
    { c \in [ name : {"VEVENT", "VTIMEZONE"},
              summary : {NO_POWER, POSSIBLE_OUTAGE, "other"},
              dtstart : Times, dtend : Times ] :
        /\ c.dtstart < c.dtend
        /\ c.name = "VTIMEZONE" => c.summary = NO_POWER }

SeqsUpTo(S, n) == UNION { [1..m -> S] : m \in 0..n }

\* The parsed feeds: what gcal.walk() yields after the calendar root.
Feeds == SeqsUpTo(Components, MaxEvents)

\* The feeds the poll loop is run on: one for each result of the evaluation
\* (nothing, a 'no power' event, a 'possible outage' event over 0..MaxTime).
LoopFeeds ==
    { f \in SeqsUpTo(Components, 1) :
        \A j \in 1..Len(f) :
            /\ f[j].name = "VEVENT"
            /\ f[j].summary # "other"
            /\ f[j].dtstart = 0
            /\ f[j].dtend = MaxTime }

\* requests.get(...) returned: the status, whether Calendar.from_ical accepts
\* the body, and the components it yields then.
NoResponse == [status |-> 0, parses |-> FALSE, walk |-> <<>>]

Responses(feeds) ==
    { r \in [status : {200, 500}, parses : BOOLEAN, walk : feeds] :
        ~r.parses => r.walk = <<>> }

(***************************************************************************)
(* State.                                                                  *)
(***************************************************************************)
VARIABLES
    keys,               \* self.BLACKOUT, self.POSSIBLE_BLACKOUT, self.NO_BLACKOUT
    metrics_collector,  \* self.metrics_collector: sequence of YasnoMetric
    gauge,              \* REGISTRY: metric name -> (group label -> value)
    pc,                 \* where the main thread is
    id,                 \* for id in range(1, 7)
    k,                  \* position of the ensure loop in KeyOrder
    metric,             \* the local variable metric
    response,           \* the local variable response
    gcal,               \* gcal.walk()
    i,                  \* position of the scan loop in gcal
    nows,               \* the values now has taken in this scan, in order
    blackout,
    possible_blackout,
    w,                  \* which of the three set calls of the branch is next
    raised              \* the exception that ended the process, or "none"

vars == <<keys, metrics_collector, gauge, pc, id, k, metric, response, gcal, i,
          nows, blackout, possible_blackout, w, raised>>

\* get_metric_by_yasno_key returns False.
NoMetric == [yasno_key |-> <<>>, name |-> <<>>]

\* Mutant: every group writes at the label of the first group.
GroupName_First(g) == 1

\* A group label: f"group_{id}" is kept as id.
GroupName(g) == g

\* The state of a fresh process about to enter Worker.loop, with the given
\* key attributes.
Start(ks) ==
    /\ keys = ks
    /\ metrics_collector = <<>>
    /\ gauge = <<>>
    /\ pc = "ensure"
    /\ id = 1
    /\ k = 1
    /\ metric = NoMetric
    /\ response = NoResponse
    /\ gcal = <<>>
    /\ i = 1
    /\ nows = <<>>
    /\ blackout = FALSE
    /\ possible_blackout = FALSE
    /\ w = 1
    /\ raised = "none"

Init == Start(WorkerKeys)

\* The process ends with exception exc; its memory is gone.
Terminate(exc) ==
    /\ pc' = "exited"
    /\ raised' = exc
    /\ metrics_collector' = <<>>
    /\ gauge' = <<>>
    /\ id' = 1
    /\ k' = 1
    /\ metric' = NoMetric
    /\ response' = NoResponse
    /\ gcal' = <<>>
    /\ i' = 1
    /\ nows' = <<>>
    /\ blackout' = FALSE
    /\ possible_blackout' = FALSE
    /\ w' = 1
    /\ UNCHANGED keys

\* Mutant: main has no except clause for KeyboardInterrupt.
ExitCode_NoHandler == IF raised = "SystemExit" THEN 0 ELSE 1

\* sys.exit(0) in signal_handler and in main's KeyboardInterrupt handler; an
\* uncaught exception ends the interpreter with status 1.
ExitCode == IF raised \in {"SystemExit", "KeyboardInterrupt"} THEN 0 ELSE 1

(***************************************************************************)
(* The registry.                                                           *)
(***************************************************************************)
\* Worker.get_metric_by_yasno_key: the first entry with that key, or False.
GetMetricByYasnoKey(collector, yasno_key) ==
    LET hits == {j \in 1..Len(collector) : collector[j].yasno_key = yasno_key}
    IN  IF hits = {} THEN NoMetric
        ELSE collector[CHOOSE j \in hits : \A h \in hits : j <= h]

\* Gauge(name, ..., labelnames=["group"]) registers name with no sample yet.
RegisterGauge(g, name) ==
    [n \in DOMAIN g \cup {name} |-> IF n = name THEN <<>> ELSE g[n]]

\* Mutant: set clears the gauge before it writes (clear, then set).
GaugeSet_Clearing(g, name, value, label) ==
    [g EXCEPT ![name] = [l \in {label} |-> value]]

\* YasnoMetric.set: self.metric.labels(group=label).set(value).
GaugeSet(g, name, value, label) ==
    [g EXCEPT ![name] =
        [l \in DOMAIN g[name] \cup {label} |->
            IF l = label THEN value ELSE g[name][l]]]

\* The metric names every prometheus_client accepts: the pattern of the data
\* model over the whole name.
PlainName(name) ==
    /\ name # <<>>
    /\ name[1] \in FirstChars
    /\ \A j \in 1..Len(name) : name[j] \in NameChars

\* continue / the end of the body of the for loop over the three keys.
NextKey ==
    IF k < Len(KeyOrder)
    THEN /\ k' = k + 1
         /\ pc' = "ensure"
    ELSE /\ k' = 1
         /\ pc' = "fetch"

\* Mutant: the lookup of the ensure loop never finds the entry.
EnsureLookup_Miss(collector, yasno_key) == NoMetric

\* Line 81: metric = self.get_metric_by_yasno_key(yasno_key).
EnsureLookup(collector, yasno_key) == GetMetricByYasnoKey(collector, yasno_key)

\* What the ensure loop leaves alone.
ensureFrame == <<keys, id, response, gcal, i, nows, blackout, possible_blackout, w>>

\* Lines 80-91 for the key at position k.
Ensure ==
    /\ pc = "ensure"
    /\ LET yasno_key == keys[KeyOrder[k]]
           found == EnsureLookup(metrics_collector, yasno_key)
           made == MetricName(yasno_key)
           new == [yasno_key |-> yasno_key, name |-> made.name]
       IN  IF found # NoMetric
           THEN /\ metric' = found
                /\ NextKey
                /\ UNCHANGED <<metrics_collector, gauge, raised>>
                /\ UNCHANGED ensureFrame
           ELSE IF made.raised = "YasnoMetricException"
           THEN \* caught at line 85: log.error, continue
                /\ metric' = NoMetric
                /\ NextKey
                /\ UNCHANGED <<metrics_collector, gauge, raised>>
                /\ UNCHANGED ensureFrame
           ELSE IF made.raised # "none"
           THEN Terminate(made.raised)
           ELSE IF made.name \in DOMAIN gauge
           THEN \* the registry refuses a second collector of that name
                Terminate("ValueError: Duplicated timeseries")
           ELSE IF ~PlainName(made.name)
           THEN \* Gauge(...) of a library that validates names by the pattern
                \* raises; one that admits any text registers the name
                \/ Terminate("ValueError: Invalid metric name")
                \/ /\ metric' = new
                   /\ gauge' = RegisterGauge(gauge, made.name)
                   /\ metrics_collector' = Append(metrics_collector, new)
                   /\ NextKey
                   /\ UNCHANGED raised
                   /\ UNCHANGED ensureFrame
           ELSE /\ metric' = new
                /\ gauge' = RegisterGauge(gauge, made.name)
                /\ metrics_collector' = Append(metrics_collector, new)
                /\ NextKey
                /\ UNCHANGED raised
                /\ UNCHANGED ensureFrame

(***************************************************************************)
(* Fetching and parsing one group's feed.                                  *)
(***************************************************************************)
\* Line 93: requests.get raises (no connection, timeout, ...) or returns a
\* response, whatever its status.
HttpGet ==
    /\ pc = "fetch"
    /\ \/ Terminate("ConnectionError")
       \/ /\ response' \in Responses(LoopFeeds)
          /\ pc' = "parse"
          /\ UNCHANGED <<keys, metrics_collector, gauge, id, k, metric, gcal, i,
                         nows, blackout, possible_blackout, w, raised>>

\* Lines 97-101: the two flags are cleared and the body is parsed;
\* Calendar.from_ical raises ValueError on a body that is no calendar.
Parse ==
    /\ pc = "parse"
    /\ IF ~response.parses
       THEN Terminate("ValueError: not a calendar")
       ELSE /\ blackout' = FALSE
            /\ possible_blackout' = FALSE
            /\ gcal' = response.walk
            /\ response' = NoResponse
            /\ i' = 1
            /\ nows' = <<>>
            /\ pc' = IF response.walk = <<>> THEN "set" ELSE "scan"
            /\ UNCHANGED <<keys, metrics_collector, gauge, id, k, metric, w, raised>>

(***************************************************************************)
(* The scan of lines 102-114.                                              *)
(***************************************************************************)
\* Mutant: the comparison admits the two ends.
Covers_Inclusive(component, now) ==
    now >= component.dtstart /\ now <= component.dtend

\* now > start_time and now < end_time
Covers(component, now) == now > component.dtstart /\ now < component.dtend

\* The clock does not run backwards during one scan.
ClockAfter(readings) ==
    { t \in ClockVals : readings = <<>> \/ t >= readings[Len(readings)] }

\* The next component of the walk, or the end of the loop.
Continue ==
    IF i < Len(gcal)
    THEN /\ i' = i + 1
         /\ pc' = "scan"
    ELSE /\ i' = i
         /\ pc' = "set"

\* Mutant: every component is taken for an event.
IsEvent_Any(component) == TRUE

\* component.name == "VEVENT"
IsEvent(component) == component.name = "VEVENT"

\* Mutant: the case of the 'possible outage' summary is missing.
MatchSummary_NoPossible(summary) ==
    IF summary = NO_POWER THEN "blackout" ELSE "no case"

\* The match statement of lines 109-114: what a covering event does.
MatchSummary(summary) ==
    IF summary = NO_POWER THEN "blackout"
    ELSE IF summary = POSSIBLE_OUTAGE THEN "possible_blackout"
    ELSE "no case"

\* One iteration of the for loop over gcal.walk().
ScanStep ==
    /\ pc = "scan"
    /\ LET component == gcal[i]
       IN  IF ~IsEvent(component)
           THEN /\ Continue
                /\ UNCHANGED <<nows, blackout, possible_blackout>>
           ELSE \E now \in ClockAfter(nows) :
                /\ nows' = Append(nows, now)
                /\ IF ~Covers(component, now)
                   THEN /\ Continue
                        /\ UNCHANGED <<blackout, possible_blackout>>
                   ELSE IF MatchSummary(component.summary) = "blackout"
                   THEN /\ blackout' = TRUE
                        /\ i' = i
                        /\ pc' = "set"          \* break
                        /\ UNCHANGED possible_blackout
                   ELSE IF MatchSummary(component.summary) = "possible_blackout"
                   THEN /\ possible_blackout' = TRUE
                        /\ Continue
                        /\ UNCHANGED blackout
                   ELSE /\ Continue
                        /\ UNCHANGED <<blackout, possible_blackout>>
    /\ UNCHANGED <<keys, metrics_collector, gauge, id, k, metric, response, gcal,
                   w, raised>>

(***************************************************************************)
(* The three set calls of lines 116-136.                                   *)
(***************************************************************************)
\* Mutant: the elif branch also sets the blackout gauge to 1.
BranchValue_TwoOnPossible(slot, b, p) ==
    IF b THEN (IF slot = "BLACKOUT" THEN 1 ELSE 0)
    ELSE IF p THEN (IF slot \in {"BLACKOUT", "POSSIBLE_BLACKOUT"} THEN 1 ELSE 0)
    ELSE (IF slot = "NO_BLACKOUT" THEN 1 ELSE 0)

\* Mutant: possible_blackout is tested before blackout.
BranchValue_PossibleFirst(slot, b, p) ==
    IF p THEN (IF slot = "POSSIBLE_BLACKOUT" THEN 1 ELSE 0)
    ELSE IF b THEN (IF slot = "BLACKOUT" THEN 1 ELSE 0)
    ELSE (IF slot = "NO_BLACKOUT" THEN 1 ELSE 0)

\* The value the chosen branch sets on the gauge of a slot.
BranchValue(slot, b, p) ==
    IF b THEN (IF slot = "BLACKOUT" THEN 1 ELSE 0)
    ELSE IF p THEN (IF slot = "POSSIBLE_BLACKOUT" THEN 1 ELSE 0)
    ELSE (IF slot = "NO_BLACKOUT" THEN 1 ELSE 0)

\* metric = self.get_metric_by_yasno_key(...); metric.set(value, group_name)
\* for the w-th key; False has no attribute set.
SetGauge ==
    /\ pc = "set"
    /\ LET slot == KeyOrder[w]
           found == GetMetricByYasnoKey(metrics_collector, keys[slot])
       IN  IF found = NoMetric
           THEN Terminate("AttributeError")
           ELSE /\ metric' = found
                /\ gauge' = GaugeSet(gauge, found.name,
                                     BranchValue(slot, blackout, possible_blackout),
                                     GroupName(id))
                /\ IF w < Len(KeyOrder)
                   THEN /\ w' = w + 1
                        /\ pc' = "set"
                   ELSE /\ w' = 1
                        /\ pc' = "written"
                /\ UNCHANGED <<keys, metrics_collector, id, k, response, gcal, i,
                               nows, blackout, possible_blackout, raised>>

(***************************************************************************)
(* The loops around it: the groups of one cycle, and Worker.loop.          *)
(***************************************************************************)
\* Mutant: Worker.loop sleeps after every group.
NextGroup_SleepEach ==
    /\ pc = "written"
    /\ id' = IF id < NumGroups THEN id + 1 ELSE 1
    /\ pc' = "sleep"
    /\ metric' = NoMetric
    /\ gcal' = <<>>
    /\ i' = 1
    /\ nows' = <<>>
    /\ blackout' = FALSE
    /\ possible_blackout' = FALSE
    /\ UNCHANGED <<keys, metrics_collector, gauge, k, response, w, raised>>

\* The end of the body of the for loop over the groups: the next group, or
\* the return to Worker.loop and time.sleep.  The locals are dead here.
NextGroup ==
    /\ pc = "written"
    /\ IF id < NumGroups
       THEN /\ id' = id + 1
            /\ pc' = "ensure"
       ELSE /\ id' = 1
            /\ pc' = "sleep"
    /\ metric' = NoMetric
    /\ gcal' = <<>>
    /\ i' = 1
    /\ nows' = <<>>
    /\ blackout' = FALSE
    /\ possible_blackout' = FALSE
    /\ UNCHANGED <<keys, metrics_collector, gauge, k, response, w, raised>>

\* time.sleep returns and the next cycle starts.
Wake ==
    /\ pc = "sleep"
    /\ pc' = "ensure"
    /\ UNCHANGED <<keys, metrics_collector, gauge, id, k, metric, response, gcal,
                   i, nows, blackout, possible_blackout, w, raised>>

(***************************************************************************)
(* Signals.                                                                *)
(***************************************************************************)
\* SIGTERM: signal_handler calls sys.exit(0) in the main thread.
Sigterm ==
    /\ pc # "exited"
    /\ Terminate("SystemExit")

\* SIGINT: KeyboardInterrupt reaches the except clause of main, sys.exit(0).
Interrupt ==
    /\ pc # "exited"
    /\ Terminate("KeyboardInterrupt")

Next ==
    \/ Ensure
    \/ HttpGet
    \/ Parse
    \/ ScanStep
    \/ SetGauge
    \/ NextGroup
    \/ Wake
    \/ Sigterm
    \/ Interrupt

Spec == Init /\ [][Next]_vars

(***************************************************************************)
(* The evaluation of one feed, for every feed of Feeds: the process has    *)
(* reached group id of its first cycle, the groups before it had empty     *)
(* feeds, and requests.get has just returned a body that parses.           *)
(***************************************************************************)
EnsuredCollector ==
    [j \in 1..Len(KeyOrder) |->
        [yasno_key |-> WorkerKeys[KeyOrder[j]],
         name |-> MetricName(WorkerKeys[KeyOrder[j]]).name]]

InitEval ==
    /\ keys = WorkerKeys
    /\ metrics_collector = EnsuredCollector
    /\ id \in Groups
    /\ gauge = [n \in {EnsuredCollector[j].name : j \in 1..Len(KeyOrder)} |->
                  [g \in 1..(id - 1) |->
                      IF n = MetricName(WorkerKeys.NO_BLACKOUT).name THEN 1 ELSE 0]]
    /\ pc = "parse"
    /\ k = 1
    /\ metric = EnsuredCollector[Len(KeyOrder)]
    /\ response \in {r \in Responses(Feeds) : r.parses /\ r.status = 200}
    /\ gcal = <<>>
    /\ i = 1
    /\ nows = <<>>
    /\ blackout = FALSE
    /\ possible_blackout = FALSE
    /\ w = 1
    /\ raised = "none"

NextEval ==
    \/ Parse
    \/ ScanStep
    \/ SetGauge

SpecEval == InitEval /\ [][NextEval]_vars

(***************************************************************************)
(* The poll loop of a Worker whose key attributes may be keys that have    *)
(* no metric name.                                                         *)
(***************************************************************************)
BadKeys == { <<"4","p","8">> }

KeyChoices ==
    { ks \in [Slots -> {WorkerKeys[s] : s \in Slots} \cup BadKeys] :
        \A s \in Slots : ks[s] \in {WorkerKeys[s]} \cup BadKeys }

InitKeys == \E ks \in KeyChoices : Start(ks)

SpecKeys == InitKeys /\ [][Next]_vars

(***************************************************************************)
(* The construction of a YasnoMetric for every key over a small alphabet:  *)
(* the ensure loop of the first group, the first key attribute being any   *)
(* such key.                                                               *)
(***************************************************************************)
\* The longest key.
MaxKeyLen == 3

\* A lower-case letter, an upper-case letter, a digit, the dot, the
\* underscore, and a character outside the pattern.
KeyAlphabet == {"a", "B", "4", ".", "_", "-"}

DeriveKeys == SeqsUpTo(KeyAlphabet, MaxKeyLen) \cup {WorkerKeys.BLACKOUT}

InitDerive ==
    \E key \in DeriveKeys : Start([WorkerKeys EXCEPT !.BLACKOUT = key])

NextDerive == Ensure

SpecDerive == InitDerive /\ [][NextDerive]_vars

(***************************************************************************)
(* Properties.                                                             *)
(***************************************************************************)
Signals == {"SystemExit", "KeyboardInterrupt"}

\* The name of the metric the registry holds for a slot (empty if none).
NameOf(slot) == GetMetricByYasnoKey(metrics_collector, keys[slot]).name

\* The gauge of a slot has a sample at group label g.
HasSample(slot, g) ==
    /\ NameOf(slot) \in DOMAIN gauge
    /\ GroupName(g) \in DOMAIN gauge[NameOf(slot)]

Sample(slot, g) == gauge[NameOf(slot)][GroupName(g)]

\* The three gauges at label g hold b, p and n.
Shows(g, b, p, n) ==
    /\ \A slot \in Slots : HasSample(slot, g)
    /\ Sample("BLACKOUT", g) = b
    /\ Sample("POSSIBLE_BLACKOUT", g) = p
    /\ Sample("NO_BLACKOUT", g) = n

OneHot(g) == Shows(g, 1, 0, 0) \/ Shows(g, 0, 1, 0) \/ Shows(g, 0, 0, 1)

\* The three writes of group g are done: in this cycle, or in the cycle that
\* has just ended.
Finished(g) ==
    \/ pc = "written" /\ id = g
    \/ pc \in {"ensure", "fetch", "parse", "scan", "set", "written"} /\ g < id
    \/ pc = "sleep"

MidWrite(g) == pc = "set" /\ id = g

\* C1: for every group, once the three gauge writes of the group are done
\* (and until its writes of a later cycle begin), exactly one of blackout,
\* possible_blackout, no_blackout holds 1 at the group's label and the other
\* two hold 0.
C1_ExactlyOneGaugeSet ==
    \A g \in Groups :
        (Finished(g) \/ (~MidWrite(g) /\ \E slot \in Slots : HasSample(slot, g)))
            => OneHot(g)

C1_Witness ==
    /\ pc = "written"
    /\ id = NumGroups
    /\ Shows(1, 0, 1, 0)
    /\ Shows(2, 0, 0, 1)
    /\ Shows(NumGroups, 1, 0, 0)

\* start < t < end, as the claims state it.
StrictlyInside(c, t) == c.dtstart < t /\ t < c.dtend

\* c is an event with that summary which covers now, whenever now was read
\* during the scan.
ActiveEvent(c, summary) ==
    /\ c.name = "VEVENT"
    /\ c.summary = summary
    /\ nows # <<>>
    /\ \A j \in 1..Len(nows) : StrictlyInside(c, nows[j])

\* c is an event with that summary which covers some reading of now.
SometimeActive(c, summary) ==
    /\ c.name = "VEVENT"
    /\ c.summary = summary
    /\ \E j \in 1..Len(nows) : StrictlyInside(c, nows[j])

\* C2: when a 'no power' event and a 'possible outage' event of the feed both
\* cover now, the group is written blackout=1, possible_blackout=0,
\* no_blackout=0, in whatever order the events come.
C2_BlackoutWins ==
    ( /\ pc = "written"
      /\ \E a \in 1..Len(gcal) : ActiveEvent(gcal[a], NO_POWER)
      /\ \E b \in 1..Len(gcal) : ActiveEvent(gcal[b], POSSIBLE_OUTAGE) )
        => Shows(id, 1, 0, 0)

C2_Witness ==
    /\ pc = "written"
    /\ Len(gcal) = 2
    /\ ActiveEvent(gcal[1], POSSIBLE_OUTAGE)
    /\ ActiveEvent(gcal[2], NO_POWER)
    /\ Len(nows) = 2
    /\ possible_blackout
    /\ blackout
    /\ Shows(id, 1, 0, 0)

\* C3: when a 'possible outage' event covers now and no 'no power' event
\* does, the group is written possible_blackout=1, blackout=0, no_blackout=0.
C3_PossibleBlackout ==
    ( /\ pc = "written"
      /\ \E b \in 1..Len(gcal) : ActiveEvent(gcal[b], POSSIBLE_OUTAGE)
      /\ ~\E a \in 1..Len(gcal) : SometimeActive(gcal[a], NO_POWER) )
        => Shows(id, 0, 1, 0)

C3_Witness ==
    /\ pc = "written"
    /\ Len(gcal) = 2
    /\ gcal[1].name = "VEVENT"
    /\ gcal[1].summary = NO_POWER
    /\ ActiveEvent(gcal[2], POSSIBLE_OUTAGE)
    /\ Len(nows) = 2
    /\ Shows(id, 0, 1, 0)

\* C4: when no VEVENT with summary 'no power' or 'possible outage' covers now
\* (nothing covers now, or what covers now has another summary or is not a
\* VEVENT), the group is written no_blackout=1, blackout=0,
\* possible_blackout=0.
C4_NoBlackout ==
    ( /\ pc = "written"
      /\ ~\E a \in 1..Len(gcal) :
            \/ SometimeActive(gcal[a], NO_POWER)
            \/ SometimeActive(gcal[a], POSSIBLE_OUTAGE) )
        => Shows(id, 0, 0, 1)

C4_Witness ==
    /\ pc = "written"
    /\ Len(gcal) = 2
    /\ gcal[1].name = "VTIMEZONE"
    /\ gcal[1].summary = NO_POWER
    /\ ActiveEvent(gcal[2], "other")
    /\ StrictlyInside(gcal[1], nows[1])
    /\ Shows(id, 0, 0, 1)

\* An event of one of the two summaries.
OutageEvent(c) ==
    c.name = "VEVENT" /\ c.summary \in {NO_POWER, POSSIBLE_OUTAGE}

\* C5 (the result): a feed whose 'no power' and 'possible outage' events all
\* start or end exactly at now is written no_blackout=1.
C5_BoundaryFeed ==
    ( /\ pc = "written"
      /\ nows # <<>>
      /\ \E a \in 1..Len(gcal) : OutageEvent(gcal[a])
      /\ \A a \in 1..Len(gcal) :
            OutageEvent(gcal[a]) =>
                \A j \in 1..Len(nows) :
                    nows[j] = gcal[a].dtstart \/ nows[j] = gcal[a].dtend )
        => Shows(id, 0, 0, 1)

\* C5 (the step): the iteration that compares an event with a now equal to
\* its start or to its end sets neither flag.
C5_BoundaryStep ==
    ( /\ pc = "scan"
      /\ gcal[i].name = "VEVENT"
      /\ Len(nows') = Len(nows) + 1
      /\ \/ nows'[Len(nows')] = gcal[i].dtstart
         \/ nows'[Len(nows')] = gcal[i].dtend )
        => /\ blackout' = blackout
           /\ possible_blackout' = possible_blackout

\* C5: an event counts as active only when start < now < end.
C5_StrictBounds == []C5_BoundaryFeed /\ [][C5_BoundaryStep]_vars

C5_Witness ==
    /\ pc = "written"
    /\ Len(gcal) = 2
    /\ Len(nows) = 2
    /\ gcal[1].name = "VEVENT"
    /\ gcal[1].summary = NO_POWER
    /\ gcal[1].dtstart = nows[1]
    /\ gcal[2].name = "VEVENT"
    /\ gcal[2].summary = POSSIBLE_OUTAGE
    /\ gcal[2].dtend = nows[2]
    /\ Shows(id, 0, 0, 1)

\* C6: a fetch that fails (requests.get raises, the status is not a success,
\* the body does not parse) is caught: the process goes on, the gauges are
\* left as they were and the group is neither evaluated nor written.
C6_FetchFailureSkipsGroup ==
    [][ ( /\ raised' \notin Signals
          /\ \/ pc = "fetch" /\ pc' # "parse"
             \/ pc = "parse" /\ (response.status # 200 \/ ~response.parses) )
        => /\ raised' = "none"
           /\ gauge' = gauge
           /\ pc' \notin {"scan", "set"} ]_vars

\* C7: the poll loop ends only when a signal ends the process.
C7_LoopEndsOnlyBySignal == pc = "exited" => raised \in Signals

\* C8: the registry holds at most one entry per key and one gauge per entry;
\* a second gauge is never registered for a key, and the metric the ensure
\* step leaves in hand is an entry of the registry.
C8_OneEntryPerKey ==
    /\ \A a, b \in 1..Len(metrics_collector) :
          metrics_collector[a].yasno_key = metrics_collector[b].yasno_key => a = b
    /\ Cardinality(DOMAIN gauge) = Len(metrics_collector)
    /\ raised # "ValueError: Duplicated timeseries"
    /\ metric # NoMetric => \E a \in 1..Len(metrics_collector) :
                                metrics_collector[a] = metric

C8_Witness ==
    /\ pc = "fetch"
    /\ id = 2
    /\ HasSample("NO_BLACKOUT", 2)
    /\ Len(metrics_collector) = Len(KeyOrder)
    /\ metric = metrics_collector[Len(KeyOrder)]

\* The derived name of the key fails the identifier pattern.
FailsPattern(key) == key # <<>> /\ ~ReMatch(ConvertKey(key))

\* C9 (the state): a key whose derived name fails the pattern has no entry in
\* the registry and no registered gauge.
C9_NothingRegistered ==
    \A slot \in Slots :
        FailsPattern(keys[slot]) =>
            /\ \A a \in 1..Len(metrics_collector) :
                  metrics_collector[a].yasno_key # keys[slot]
            /\ (YasnoPrefix \o ConvertKey(keys[slot])) \notin DOMAIN gauge

\* C9 (the step): the ensure step of such a key ends with no metric, the
\* process goes on, and the registry and the gauges are as before.
C9_EnsureStep ==
    ( /\ pc = "ensure"
      /\ FailsPattern(keys[KeyOrder[k]])
      /\ raised' \notin Signals )
        => /\ raised' = "none"
           /\ metric' = NoMetric
           /\ metrics_collector' = metrics_collector
           /\ gauge' = gauge

\* C9: for a key whose derived name fails the identifier pattern the ensure
\* step ends in the error outcome and registers nothing, now or later.
C9_InvalidKeyNeverRegistered == []C9_NothingRegistered /\ [][C9_EnsureStep]_vars

C9_Witness ==
    /\ pc = "ensure"
    /\ k = 3
    /\ FailsPattern(keys["POSSIBLE_BLACKOUT"])
    /\ metric = NoMetric
    /\ Len(metrics_collector) = 1

\* C10: a key whose name derivation failed does not end the process: the
\* set call for the key that has no metric is not fatal.
C10_DerivationFailureNotFatal ==
    (\E slot \in Slots : FailsPattern(keys[slot])) => raised # "AttributeError"

\* The gauges that hold 1 at label g.
GaugesAtOne(g) == {slot \in Slots : HasSample(slot, g) /\ Sample(slot, g) = 1}

\* C11: whenever the gauges are read, also between two set calls, at most
\* one of the three gauges holds 1 at any group label.
C11_NeverTwoAtOne == \A g \in Groups : Cardinality(GaugesAtOne(g)) <= 1

\* The derivation as a rule on positions: after the dots are replaced, the
\* j-th character is emitted lower-cased, behind an underscore exactly when
\* it is upper-case, not the first, and the character before it is not an
\* underscore (the last emitted character is that character lower-cased).
RefPiece(key, j) ==
    LET at(h) == IF key[h] = "." THEN "_" ELSE key[h]
    IN  IF j > 1 /\ IsUpper(at(j)) /\ at(j - 1) # "_"
        THEN <<"_", Lower(at(j))>>
        ELSE <<Lower(at(j))>>

RECURSIVE RefUpTo(_, _)
RefUpTo(key, n) == IF n = 0 THEN <<>> ELSE RefUpTo(key, n - 1) \o RefPiece(key, n)

RefName(key) == YasnoPrefix \o RefUpTo(key, Len(key))

ExpectedNames ==
    [ BLACKOUT          |-> <<"y","a","s","n","o","_","b","l","a","c","k","o","u","t">>,
      POSSIBLE_BLACKOUT |-> <<"y","a","s","n","o","_","p","o","s","s","i","b","l","e",
                              "_","b","l","a","c","k","o","u","t">>,
      NO_BLACKOUT       |-> <<"y","a","s","n","o","_","n","o","_",
                              "b","l","a","c","k","o","u","t">> ]

\* C12: the name of every metric the registry holds is yasno_ followed by
\* the reference derivation of its key; the three status keys give
\* yasno_blackout, yasno_possible_blackout and yasno_no_blackout.
C12_NameDerivation ==
    \A a \in 1..Len(metrics_collector) :
        /\ metrics_collector[a].name = RefName(metrics_collector[a].yasno_key)
        /\ \A slot \in Slots :
              metrics_collector[a].yasno_key = WorkerKeys[slot]
                  => metrics_collector[a].name = ExpectedNames[slot]

C12_Witness ==
    /\ pc = "fetch"
    /\ Len(metrics_collector) = 3
    /\ metrics_collector[1].yasno_key = <<"a", "B", "B">>
    /\ metrics_collector[1].name = <<"y","a","s","n","o","_","a","_","b","_","b">>
    /\ metrics_collector[2].name = ExpectedNames.POSSIBLE_BLACKOUT
    /\ metrics_collector[3].name = ExpectedNames.NO_BLACKOUT

\* The derived part of a metric name: what follows yasno_.
Derived(name) == SubSeq(name, Len(YasnoPrefix) + 1, Len(name))

\* The key is made of letters, digits and dots only.
PlainKey(key) ==
    \A j \in 1..Len(key) :
        key[j] \in UpperChars \cup LowerChars \cup Digits \cup {"."}

\* C13: for a key of letters, digits and dots that has a metric, the
\* derivation applied to the derived name returns it unchanged, and the
\* derived name passes the validation again.
C13_Idempotent ==
    \A a \in 1..Len(metrics_collector) :
        PlainKey(metrics_collector[a].yasno_key) =>
            /\ ConvertKey(Derived(metrics_collector[a].name))
                  = Derived(metrics_collector[a].name)
            /\ ReMatch(Derived(metrics_collector[a].name))

C13_Witness ==
    /\ pc = "fetch"
    /\ metrics_collector[1].yasno_key = <<"a", "B", "4">>
    /\ Derived(metrics_collector[1].name) = <<"a", "_", "b", "4">>
    /\ ConvertKey(<<"a", "_", "b", "4">>) = <<"a", "_", "b", "4">>

LoopStates == {"ensure", "fetch", "parse", "scan", "set", "written", "sleep"}

\* C14 (the step): a signal ends the process at once, with status 0.
C14_SignalStep ==
    (raised' \in Signals /\ raised \notin Signals)
        => /\ pc \in LoopStates
           /\ pc' = "exited"
           /\ ExitCode' = 0

\* C14: in every state of the poll loop (ensuring, fetching, parsing,
\* scanning, writing, between groups, sleeping) SIGTERM and the interactive
\* interrupt can each be taken, and taking one ends the process with status
\* 0 in that step, the rest of the cycle undone.
C14_SignalExits ==
    /\ [](pc \in LoopStates =>
            /\ ENABLED (Sigterm /\ ExitCode' = 0)
            /\ ENABLED (Interrupt /\ ExitCode' = 0))
    /\ [][C14_SignalStep]_vars

C14_Witness ==
    /\ pc = "exited"
    /\ raised = "KeyboardInterrupt"
    /\ ExitCode = 0

\* C15 (the step): the group changes only when the three writes of the
\* current one are done, to the next one; the sleep starts only after the
\* writes of the last group; a fetch starts only from the ensure loop of
\* its own group.
C15_OrderStep ==
    pc' # "exited" =>
        /\ id' # id =>
              /\ pc = "written"
              /\ \A slot \in Slots : HasSample(slot, id)
              /\ \/ id < NumGroups /\ id' = id + 1 /\ pc' = "ensure"
                 \/ id = NumGroups /\ id' = 1 /\ pc' = "sleep"
        /\ (pc' = "sleep" /\ pc # "sleep") => (pc = "written" /\ id = NumGroups)
        /\ (pc' = "fetch" /\ pc # "fetch") => (pc = "ensure" /\ id' = id)
        /\ (pc = "written") => (pc' \in {"ensure", "sleep"})
        /\ (pc = "sleep") => (pc' = "ensure" /\ id' = 1)

\* C15 (the reader): a group has samples only if every group before it has
\* all three.
C15_InOrder ==
    \A g \in Groups :
        (\E slot \in Slots : HasSample(slot, g))
            => \A h \in 1..(g - 1) : \A slot \in Slots : HasSample(slot, h)

\* C15: the groups of a cycle are handled one after the other in the order
\* 1..NumGroups, the sleep comes once per cycle after the last group, and
\* between two groups the earlier ones show this cycle's values while the
\* later ones show the previous cycle's.
C15_GroupsInOrder == []C15_InOrder /\ [][C15_OrderStep]_vars

C15_Witness ==
    /\ pc = "ensure"
    /\ id = 4
    /\ \A g \in 1..3 : Shows(g, 0, 0, 1)
    /\ \A g \in 4..NumGroups : Shows(g, 1, 0, 0)

\* What the evaluation of the whole walk at the single instant t writes.
ShowsEvalAt(g, walk, t) ==
    LET b == \E a \in 1..Len(walk) :
                 /\ walk[a].name = "VEVENT"
                 /\ walk[a].summary = NO_POWER
                 /\ StrictlyInside(walk[a], t)
        p == \E a \in 1..Len(walk) :
                 /\ walk[a].name = "VEVENT"
                 /\ walk[a].summary = POSSIBLE_OUTAGE
                 /\ StrictlyInside(walk[a], t)
    IN  Shows(g, IF b THEN 1 ELSE 0,
                 IF ~b /\ p THEN 1 ELSE 0,
                 IF ~b /\ ~p THEN 1 ELSE 0)

\* C16: what is written for a group is the evaluation of its whole event
\* list at one single instant, even when the clock advances during the scan.
C16_SingleInstant ==
    pc = "written" => \E t \in ClockVals : ShowsEvalAt(id, gcal, t)

\* C18 (the step): a step of the poll loop keeps every gauge, every label
\* that has a value, and every registry entry in its place.
C18_KeepStep ==
    pc' # "exited" =>
        /\ DOMAIN gauge \subseteq DOMAIN gauge'
        /\ \A n \in DOMAIN gauge : DOMAIN gauge[n] \subseteq DOMAIN gauge'[n]
        /\ Len(metrics_collector) <= Len(metrics_collector')
        /\ SubSeq(metrics_collector', 1, Len(metrics_collector)) = metrics_collector

\* C18 (the size): the registry holds at most one entry per status key.
C18_AtMostThree == Len(metrics_collector) <= Len(KeyOrder)

\* C18: while the process runs, no gauge is cleared and no registry entry is
\* removed: a label that holds a value keeps holding one, and the registry
\* only grows, up to the three status keys.
C18_NothingCleared == []C18_AtMostThree /\ [][C18_KeepStep]_vars

C18_Witness ==
    /\ pc = "set"
    /\ id = 2
    /\ w = 2
    /\ Len(metrics_collector) = Len(KeyOrder)
    /\ \A n \in DOMAIN gauge : DOMAIN gauge[n] = Groups

\* C19 (the step): see C19_FrameOfGroup.
C19_OnlyOwnLabel ==
    pc' # "exited" =>
        /\ \A n \in DOMAIN gauge : \A l \in DOMAIN gauge[n] :
              l # id => (l \in DOMAIN gauge'[n] /\ gauge'[n][l] = gauge[n][l])
        /\ \A n \in DOMAIN gauge' : \A l \in DOMAIN gauge'[n] :
              \/ /\ n \in DOMAIN gauge
                 /\ l \in DOMAIN gauge[n]
                 /\ gauge'[n][l] = gauge[n][l]
              \/ /\ pc = "set"
                 /\ l = id
                 /\ gauge'[n][l] \in {0, 1}

\* C19: a step that handles group id changes gauge values at label id only,
\* and only to 0 or 1: every value at another label is after the step what
\* it was before, and no value appears at another label.
C19_FrameOfGroup == [][C19_OnlyOwnLabel]_vars

C19_Witness ==
    /\ pc = "written"
    /\ id = 2
    /\ \A n \in DOMAIN gauge : DOMAIN gauge[n] = {1, 2}
    /\ gauge[NameOf("BLACKOUT")][1] = 1
    /\ gauge[NameOf("BLACKOUT")][2] = 0
    /\ gauge[NameOf("NO_BLACKOUT")][2] = 1

====
